---- MODULE Spec2Model ----
(***************************************************************************)
(* Model of `shred` and `emitFragment` of assembly/ca.py (jcvi): contigs   *)
(* are shredded into overlapping pseudo-reads, and every pseudo-read is    *)
(* written as a fragment record.                                           *)
(*                                                                         *)
(* The window placement of shred is computed in Python floats (IEEE-754    *)
(* binary64): center_increments = W * 1. / (numreads - 1), begin =         *)
(* center_increments * i, end = begin + shredlen, both truncated by int(). *)
(* The model computes these operations exactly as binary64 does: a float   *)
(* is [m, e] with value m * 2^e, the significand m is an unbounded natural *)
(* kept as a little-endian sequence of limbs, and every operation rounds   *)
(* its exact result to 53 significant bits, ties to even.                  *)
(***************************************************************************)
EXTENDS Integers, Sequences, FiniteSets, TLC

(***************************************************************************)
(* Bounds of the model.                                                    *)
(***************************************************************************)
MaxCtgs == 2
MinLen == 45
MaxLen == 69
MaxReadLen == 8
MaxDepth == 2
MaxReads == 60
SmallMinCtgLen == 48

(***************************************************************************)
(* Program constants.                                                      *)
(***************************************************************************)
DefaultDepth == 2
DefaultReadLen == 1000
DefaultMinCtgLen == 150
Margin == 50
DEFAULTQV == "="

(***************************************************************************)
(* Unbounded naturals: little-endian limb sequences, <<>> is zero.         *)
(***************************************************************************)
LimbBits == 15
LimbBase == 2 ^ LimbBits
MantBits == 53
DivShift == 68

RECURSIVE BigFromInt(_)
BigFromInt(n) ==
    IF n = 0 THEN <<>> ELSE <<n % LimbBase>> \o BigFromInt(n \div LimbBase)

RECURSIVE BigToInt(_)
BigToInt(a) ==
    IF a = <<>> THEN 0 ELSE a[1] + LimbBase * BigToInt(Tail(a))

RECURSIVE Trim(_)
Trim(a) ==
    IF a = <<>> THEN <<>>
    ELSE IF a[Len(a)] = 0 THEN Trim(SubSeq(a, 1, Len(a) - 1))
    ELSE a

RECURSIVE MulSmall(_, _, _)
MulSmall(a, k, c) ==
    IF a = <<>> THEN BigFromInt(c)
    ELSE LET t == a[1] * k + c
         IN  <<t % LimbBase>> \o MulSmall(Tail(a), k, t \div LimbBase)

RECURSIVE BigAdd(_, _, _)
BigAdd(a, b, c) ==
    IF a = <<>> /\ b = <<>> THEN BigFromInt(c)
    ELSE LET x == IF a = <<>> THEN 0 ELSE a[1]
             y == IF b = <<>> THEN 0 ELSE b[1]
             t == x + y + c
         IN  <<t % LimbBase>> \o
             BigAdd(IF a = <<>> THEN <<>> ELSE Tail(a),
                    IF b = <<>> THEN <<>> ELSE Tail(b), t \div LimbBase)

RECURSIVE DivRem(_, _)
DivRem(a, d) ==
    IF a = <<>> THEN [q |-> <<>>, r |-> 0]
    ELSE LET hi == DivRem(Tail(a), d)
             t == hi.r * LimbBase + a[1]
         IN  [q |-> <<t \div d>> \o hi.q, r |-> t % d]

Zeros(n) == [i \in 1..n |-> 0]

ShiftLeft(a, s) ==
    IF a = <<>> THEN <<>>
    ELSE Zeros(s \div LimbBits) \o MulSmall(a, 2 ^ (s % LimbBits), 0)

ShiftRight(a, s) ==
    Trim(DivRem(SubSeq(a, (s \div LimbBits) + 1, Len(a)),
                2 ^ (s % LimbBits)).q)

RECURSIVE SmallBitLen(_)
SmallBitLen(n) == IF n = 0 THEN 0 ELSE 1 + SmallBitLen(n \div 2)

BitLen(a) ==
    IF a = <<>> THEN 0
    ELSE LimbBits * (Len(a) - 1) + SmallBitLen(a[Len(a)])

Bit(a, j) ==
    LET idx == (j \div LimbBits) + 1
    IN  IF idx > Len(a) THEN 0 ELSE (a[idx] \div (2 ^ (j % LimbBits))) % 2

LowZero(a, j) ==
    LET idx == (j \div LimbBits) + 1
    IN  /\ \A l \in 1..(idx - 1) : l > Len(a) \/ a[l] = 0
        /\ idx > Len(a) \/ a[idx] % (2 ^ (j % LimbBits)) = 0

(***************************************************************************)
(* binary64 arithmetic.  Round takes the exact result q * 2^e (sticky says *)
(* that a non-zero part below q was already dropped) and rounds it to      *)
(* MantBits significant bits, ties to even.                                *)
(***************************************************************************)
Round(q, sticky, e) ==
    LET k == BitLen(q) - MantBits
    IN  IF k <= 0 THEN [m |-> q, e |-> e]
        ELSE LET t == ShiftRight(q, k)
                 up == /\ Bit(q, k - 1) = 1
                       /\ \/ sticky
                          \/ ~LowZero(q, k - 1)
                          \/ t[1] % 2 = 1
             IN  [m |-> IF up THEN BigAdd(t, <<>>, 1) ELSE t, e |-> e + k]

\* float(a) / float(b) for integers a >= 0, b > 0
FDiv(a, b) ==
    LET dr == DivRem(ShiftLeft(BigFromInt(a), DivShift), b)
    IN  Round(Trim(dr.q), dr.r # 0, 0 - DivShift)

\* x * float(i) for an integer i >= 0
FMul(x, i) == Round(Trim(MulSmall(x.m, i, 0)), FALSE, x.e)

\* x + float(n) for an integer n >= 0
FAdd(x, n) ==
    Round(Trim(BigAdd(x.m, ShiftLeft(BigFromInt(n), 0 - x.e), 0)), FALSE, x.e)

\* int(x): truncation toward zero, x >= 0
FInt(x) == BigToInt(ShiftRight(x.m, 0 - x.e))

(***************************************************************************)
(* Python 2 integer helpers.                                               *)
(***************************************************************************)
Min(a, b) == IF a < b THEN a ELSE b
Max(a, b) == IF a > b THEN a ELSE b

\* a / b on ints: floor division, b # 0
PyDiv(a, b) ==
    IF b > 0
    THEN IF a >= 0 THEN a \div b ELSE 0 - (((0 - a) + b - 1) \div b)
    ELSE IF a >= 0 THEN 0 - ((a + (0 - b) - 1) \div (0 - b))
         ELSE (0 - a) \div (0 - b)

(***************************************************************************)
(* The window plan of one contig (shred, the body of the contig loop).     *)
(***************************************************************************)
Shredlen(seqlen, readlen) == Min(seqlen - Margin, readlen)

\* numreads rounded up instead of down
NumreadsCeil(seqlen, readlen, depth) ==
    Max(PyDiv(seqlen * depth + Shredlen(seqlen, readlen) - 1,
              Shredlen(seqlen, readlen)), 1)

Numreads(seqlen, readlen, depth) ==
    Max(PyDiv(seqlen * depth, Shredlen(seqlen, readlen)), 1)

\* the threshold itself counted as too short
TooShortOrEqual(seqlen, minctglen) == seqlen <= minctglen

\* if seqlen < opts.minctglen: continue
TooShort(seqlen, minctglen) == seqlen < minctglen

CenterRangeWidth(seqlen, readlen) == seqlen - Shredlen(seqlen, readlen)

(***************************************************************************)
(* Sequences, slices and fragment identifiers.                             *)
(***************************************************************************)
Bases == <<"A", "C", "G", "T">>

\* the residues of the contig at 0-based position ctg of the input
Contig(ctg, seqlen) == [p \in 1..seqlen |-> Bases[((ctg + p) % 4) + 1]]

\* seq[begin:end] of Python
PyIndex(n, k) == IF k < 0 THEN Max(k + n, 0) ELSE Min(k, n)

PySlice(seq, begin, end) ==
    SubSeq(seq, PyIndex(Len(seq), begin) + 1, PyIndex(Len(seq), end))

DigitChars == <<"0", "1", "2", "3", "4", "5", "6", "7", "8", "9">>

RECURSIVE Digits(_)
Digits(n) ==
    IF n < 10 THEN <<DigitChars[n + 1]>>
    ELSE Digits(n \div 10) \o <<DigitChars[(n % 10) + 1]>>

\* "{0}".format(n)
Str(n) == IF n < 0 THEN <<"-">> \o Digits(0 - n) ELSE Digits(n)

LibID == <<"c", "t", "g">>

\* the identifier with a window index counted from 1
FragIDOneBased(libID, ctg, shred, begin, end) ==
    libID \o <<".">> \o Str(ctg) \o <<".", "f", "r", "a", "g">>
          \o Str(shred + 1) \o <<".">> \o Str(begin) \o <<"-">> \o Str(end)

\* the identifier without the contig index
FragIDNoCtg(libID, ctg, shred, begin, end) ==
    libID \o <<".">> \o Str(0) \o <<".", "f", "r", "a", "g">> \o Str(shred)
          \o <<".">> \o Str(begin) \o <<"-">> \o Str(end)

\* "{0}.{1}.frag{2}.{3}-{4}".format(libID, ctgID, shredID, begin, end)
FragID(libID, ctg, shred, begin, end) ==
    libID \o <<".">> \o Str(ctg) \o <<".", "f", "r", "a", "g">> \o Str(shred)
          \o <<".">> \o Str(begin) \o <<"-">> \o Str(end)

\* DEFAULTQV * slen
Qvs(slen) == [p \in 1..slen |-> DEFAULTQV]

HeaderRecord(libID) == [blk |-> "LIB", acc |-> libID]

FastaRecord(fragID, shredded_seq) ==
    [blk |-> "FASTA", acc |-> fragID, seq |-> shredded_seq]

\* the clear range one residue short
FrgRecordShortClr(fragID, libID, shredded_seq) ==
    [blk |-> "FRG", acc |-> fragID, lib |-> libID, seq |-> shredded_seq,
     qlt |-> Qvs(Len(shredded_seq)), clr |-> <<0, Len(shredded_seq) - 1>>]

FrgRecord(fragID, libID, shredded_seq) ==
    [blk |-> "FRG", acc |-> fragID, lib |-> libID, seq |-> shredded_seq,
     qlt |-> Qvs(Len(shredded_seq)), clr |-> <<0, Len(shredded_seq)>>]

(***************************************************************************)
(* State.                                                                  *)
(***************************************************************************)
VARIABLES
    opts,               \* depth, readlen, minctglen, fasta
    f,                  \* the lengths of the contigs of fastafile, in order
    exists,             \* outfile exists when the run starts
    outfile,            \* the file at the output path: "absent", "old" (as it
                        \* was before the run) or "new" (created by the run,
                        \* holding fw)
    fw,                 \* the records written to outfile, in order
    pc,                 \* position of the run inside shred
    ctgID,              \* index of the contig loop
    center_increments,  \* float
    i,                  \* index of the placement loop
    prev_begin,
    ranges,
    shredID             \* index of the emission loop

vars == <<opts, f, exists, outfile, fw, pc, ctgID, center_increments, i, prev_begin,
          ranges, shredID>>

FZero == [m |-> <<>>, e |-> 0]

seqlen == f[ctgID + 1]
shredlen == Shredlen(seqlen, opts.readlen)
numreads == Numreads(seqlen, opts.readlen, opts.depth)

SeqsOver(S, n) == UNION {[1..k -> S] : k \in 0..n}

SpecLens == {140, 150, 2150}
RunLens == {49, 50, 69, 150}
MinCtgLens == {SmallMinCtgLen, DefaultMinCtgLen}

Planned(len, o) ==
    IF TooShort(len, o.minctglen) \/ Shredlen(len, o.readlen) = 0 THEN 0
    ELSE Numreads(len, o.readlen, o.depth)

\* one contig, read lengths and depths over their whole ranges, the default
\* (structured) output
InitOne ==
    /\ f \in SeqsOver((MinLen..MaxLen) \cup SpecLens, 1)
    /\ opts \in [depth : 1..MaxDepth,
                 readlen : (1..MaxReadLen) \cup {DefaultReadLen},
                 minctglen : MinCtgLens, fasta : {FALSE}]

\* several contigs, both outputs
InitRun ==
    /\ f \in SeqsOver(RunLens, MaxCtgs)
    /\ opts \in [depth : {1, DefaultDepth},
                 readlen : {MaxReadLen, DefaultReadLen},
                 minctglen : MinCtgLens, fasta : BOOLEAN]

Init ==
    /\ InitOne \/ InitRun
    /\ \A c \in 1..Len(f) : Planned(f[c], opts) <= MaxReads
    /\ exists \in BOOLEAN
    /\ outfile = IF exists THEN "old" ELSE "absent"
    /\ fw = <<>>
    /\ pc = "open"
    /\ ctgID = 0
    /\ center_increments = FZero
    /\ i = 0
    /\ prev_begin = 0 - 1
    /\ ranges = <<>>
    /\ shredID = 0

(***************************************************************************)
(* Actions.                                                                *)
(***************************************************************************)
loopvars == <<center_increments, i, prev_begin, ranges, shredID>>

\* the output opened without checkexists: an existing file is overwritten
OpenOverwrite ==
    /\ pc = "open"
    /\ outfile' = "new"
    /\ pc' = "header"
    /\ UNCHANGED <<opts, f, exists, fw, ctgID, loopvars>>

\* must_open(outfile, "w", checkexists=True), outfile is new
Open ==
    /\ pc = "open"
    /\ ~exists
    /\ outfile' = "new"
    /\ pc' = "header"
    /\ UNCHANGED <<opts, f, exists, fw, ctgID, loopvars>>

\* must_open(outfile, "w", checkexists=True), outfile exists
OpenFail ==
    /\ pc = "open"
    /\ exists
    /\ pc' = "aborted"
    /\ UNCHANGED <<opts, f, exists, outfile, fw, ctgID, loopvars>>

\* the header written in fasta mode as well
WriteHeaderAlways ==
    /\ pc = "header"
    /\ fw' = Append(fw, HeaderRecord(LibID))
    /\ pc' = "loop"
    /\ UNCHANGED <<opts, f, exists, outfile, ctgID, loopvars>>

WriteHeader ==
    /\ pc = "header"
    /\ fw' = IF ~opts.fasta THEN Append(fw, HeaderRecord(LibID)) ELSE fw
    /\ pc' = "loop"
    /\ UNCHANGED <<opts, f, exists, outfile, ctgID, loopvars>>

\* the contig loop is exhausted
Close ==
    /\ pc = "loop"
    /\ ctgID = Len(f)
    /\ pc' = "done"
    /\ UNCHANGED <<opts, f, exists, outfile, fw, ctgID, loopvars>>

\* if seqlen < opts.minctglen: continue
SkipContig ==
    /\ pc = "loop"
    /\ ctgID < Len(f)
    /\ TooShort(seqlen, opts.minctglen)
    /\ ctgID' = ctgID + 1
    /\ UNCHANGED <<opts, f, exists, outfile, fw, pc, loopvars>>

\* seqlen * opts.depth / shredlen raises ZeroDivisionError
PlanFail ==
    /\ pc = "loop"
    /\ ctgID < Len(f)
    /\ ~TooShort(seqlen, opts.minctglen)
    /\ shredlen = 0
    /\ pc' = "error"
    /\ UNCHANGED <<opts, f, exists, outfile, fw, ctgID, loopvars>>

\* PlanContig with prev_begin starting at 0
PlanContigPrevZero ==
    /\ pc = "loop"
    /\ ctgID < Len(f)
    /\ ~TooShort(seqlen, opts.minctglen)
    /\ shredlen # 0
    /\ shredID' = 0
    /\ IF numreads = 1
       THEN /\ ranges' = << <<0, shredlen>> >>
            /\ pc' = "emit"
            /\ UNCHANGED <<center_increments, i, prev_begin>>
       ELSE /\ ranges' = <<>>
            /\ prev_begin' = 0
            /\ center_increments' =
                   FDiv(CenterRangeWidth(seqlen, opts.readlen), numreads - 1)
            /\ i' = 0
            /\ pc' = "place"
    /\ UNCHANGED <<opts, f, exists, outfile, fw, ctgID>>

PlanContig ==
    /\ pc = "loop"
    /\ ctgID < Len(f)
    /\ ~TooShort(seqlen, opts.minctglen)
    /\ shredlen # 0
    /\ shredID' = 0
    /\ IF numreads = 1
       THEN /\ ranges' = << <<0, shredlen>> >>
            /\ pc' = "emit"
            /\ UNCHANGED <<center_increments, i, prev_begin>>
       ELSE /\ ranges' = <<>>
            /\ prev_begin' = 0 - 1
            /\ center_increments' =
                   FDiv(CenterRangeWidth(seqlen, opts.readlen), numreads - 1)
            /\ i' = 0
            /\ pc' = "place"
    /\ UNCHANGED <<opts, f, exists, outfile, fw, ctgID>>

\* PlaceWindow without the duplicate-start check
PlaceWindowNoSkip ==
    /\ pc = "place"
    /\ LET fbegin == FMul(center_increments, i)
           fend == FAdd(fbegin, shredlen)
           begin == FInt(fbegin)
           end == FInt(fend)
       IN  /\ ranges' = Append(ranges, <<begin, end>>)
           /\ prev_begin' = begin
    /\ i' = i + 1
    /\ pc' = IF i + 1 = numreads THEN "emit" ELSE "place"
    /\ UNCHANGED <<opts, f, exists, outfile, fw, ctgID, center_increments, shredID>>

\* one iteration of: for i in xrange(numreads)
PlaceWindow ==
    /\ pc = "place"
    /\ LET fbegin == FMul(center_increments, i)
           fend == FAdd(fbegin, shredlen)
           begin == FInt(fbegin)
           end == FInt(fend)
       IN  IF begin = prev_begin
           THEN UNCHANGED <<ranges, prev_begin>>
           ELSE /\ ranges' = Append(ranges, <<begin, end>>)
                /\ prev_begin' = begin
    /\ i' = i + 1
    /\ pc' = IF i + 1 = numreads THEN "emit" ELSE "place"
    /\ UNCHANGED <<opts, f, exists, outfile, fw, ctgID, center_increments, shredID>>

\* emitFragment(fw, fragID, libID, shredded_seq, fasta)
emitFragment(out, fragID, libID, shredded_seq, fasta) ==
    IF fasta THEN Append(out, FastaRecord(fragID, shredded_seq))
    ELSE Append(out, FrgRecord(fragID, libID, shredded_seq))

\* one iteration of: for shredID, (begin, end) in enumerate(ranges)
EmitWindow ==
    /\ pc = "emit"
    /\ LET begin == ranges[shredID + 1][1]
           end == ranges[shredID + 1][2]
           shredded_seq == PySlice(Contig(ctgID, seqlen), begin, end)
           fragID == FragID(LibID, ctgID, shredID, begin, end)
       IN  fw' = emitFragment(fw, fragID, LibID, shredded_seq, opts.fasta)
    /\ IF shredID + 1 = Len(ranges)
       THEN /\ ctgID' = ctgID + 1
            /\ pc' = "loop"
            /\ UNCHANGED shredID
       ELSE /\ shredID' = shredID + 1
            /\ UNCHANGED <<ctgID, pc>>
    /\ UNCHANGED <<opts, f, exists, outfile, center_increments, i, prev_begin, ranges>>

Next ==
    \/ Open
    \/ OpenFail
    \/ WriteHeader
    \/ Close
    \/ SkipContig
    \/ PlanFail
    \/ PlanContig
    \/ PlaceWindow
    \/ EmitWindow

Spec == Init /\ [][Next]_vars

(***************************************************************************)
(* Reading a fragment identifier back: the fields a consumer of the output *)
(* finds in "<lib>.<ctg>.frag<shred>.<begin>-<end>".                       *)
(***************************************************************************)
DigitVal == ("0" :> 0) @@ ("1" :> 1) @@ ("2" :> 2) @@ ("3" :> 3) @@ ("4" :> 4)
            @@ ("5" :> 5) @@ ("6" :> 6) @@ ("7" :> 7) @@ ("8" :> 8)
            @@ ("9" :> 9)

IsDigit(s, pos) == pos <= Len(s) /\ s[pos] \in DOMAIN DigitVal

RECURSIVE ParseNat(_, _, _)
ParseNat(s, pos, val) ==
    IF IsDigit(s, pos) THEN ParseNat(s, pos + 1, 10 * val + DigitVal[s[pos]])
    ELSE [val |-> val, pos |-> pos]

ParseInt(s, pos) ==
    IF pos <= Len(s) /\ s[pos] = "-"
    THEN LET r == ParseNat(s, pos + 1, 0) IN [val |-> 0 - r.val, pos |-> r.pos]
    ELSE ParseNat(s, pos, 0)

IdFields(acc) ==
    LET c == ParseNat(acc, Len(LibID) + 2, 0)
        s == ParseNat(acc, c.pos + 5, 0)
        b == ParseInt(acc, s.pos + 1)
        e == ParseInt(acc, b.pos + 1)
    IN  [ctg |-> c.val, shred |-> s.val, begin |-> b.val, end |-> e.val]

Frags == {k \in 1..Len(fw) : fw[k].blk # "LIB"}

(***************************************************************************)
(* Claims.                                                                 *)
(***************************************************************************)

\* C1: for a sequence with length >= minctglen and effective read length
\* L = min(length - 50, readlen) > 0, the plan has at least one window and
\* every window (begin, end) has 0 <= begin < end <= length and
\* end - begin = L.
C1_WindowsWellFormed ==
    LET L == Min(seqlen - 50, opts.readlen)
    IN  (pc \in {"place", "emit"} /\ seqlen >= opts.minctglen /\ L > 0) =>
            /\ pc = "emit" => Len(ranges) >= 1
            /\ \A k \in 1..Len(ranges) :
                   /\ 0 <= ranges[k][1]
                   /\ ranges[k][1] < ranges[k][2]
                   /\ ranges[k][2] <= seqlen
                   /\ ranges[k][2] - ranges[k][1] = L

\* C2: the begin values of consecutive windows of one sequence are strictly
\* increasing, so no two windows of a sequence share a start.
C2_BeginsStrictlyIncreasing ==
    \A k \in 1..(Len(ranges) - 1) : ranges[k][1] < ranges[k + 1][1]

\* C2 witness: a plan is complete in which truncation made a tentative window
\* collide with the previous one, so fewer than numreads windows were kept.
C2_Witness ==
    /\ pc = "emit"
    /\ numreads > 1
    /\ Len(ranges) >= 2
    /\ Len(ranges) < numreads

\* C3: the plan equals the reference plan: with L = min(length - 50,
\* readlen), N = max(floor(length * depth / L), 1) and W = length - L it is
\* [(0, L)] when N = 1, and otherwise the windows (b, b + L) for the distinct
\* values b = floor(W * i / (N - 1)), i = 0..N-1, in increasing order; at
\* most N windows; for length 2150, readlen 1000, depth 2 it is (0,1000),
\* (383,1383), (766,1766), (1150,2150).
C3_ReferencePlan ==
    LET L == Min(seqlen - 50, opts.readlen)
        N == Max((seqlen * opts.depth) \div L, 1)
        W == seqlen - L
        RefBegins == IF N = 1 THEN {0}
                     ELSE {(W * j) \div (N - 1) : j \in 0..(N - 1)}
    IN  (pc = "emit" /\ L > 0) =>
            /\ Len(ranges) = Cardinality(RefBegins)
            /\ Len(ranges) <= N
            /\ \A k \in 1..Len(ranges) :
                   /\ ranges[k][1] \in RefBegins
                   /\ Cardinality({b \in RefBegins : b < ranges[k][1]}) = k - 1
                   /\ ranges[k][2] = ranges[k][1] + L
            /\ (seqlen = 2150 /\ opts.readlen = 1000 /\ opts.depth = 2) =>
                   ranges = << <<0, 1000>>, <<383, 1383>>, <<766, 1766>>,
                               <<1150, 2150>> >>

\* C4 (as claimed): when depth = 1 and readlen >= length, exactly one window
\* is planned, and it is [0, min(length - 50, readlen)).
C4_SingleWindow ==
    (pc = "emit" /\ opts.depth = 1 /\ opts.readlen >= seqlen) =>
        ranges = << <<0, Min(seqlen - 50, opts.readlen)>> >>

\* C4 (amended): when depth = 1, readlen >= length and length > 100, exactly
\* one window is planned, and it is [0, length - 50).
C4_SingleWindowLong ==
    (pc = "emit" /\ opts.depth = 1 /\ opts.readlen >= seqlen /\ seqlen > 100)
        => ranges = << <<0, seqlen - 50>> >>

\* C4 witness: a sequence longer than 100 was planned with depth 1 and a read
\* length that is at least its length.
C4_Witness ==
    /\ pc = "emit"
    /\ opts.depth = 1
    /\ opts.readlen >= seqlen
    /\ seqlen > 100
    /\ Len(ranges) = 1

Covered(p) == \E k \in 1..Len(ranges) : ranges[k][1] <= p /\ p < ranges[k][2]

\* C5 (as claimed): the windows planned for a surviving sequence cover it:
\* every position 0..length-1 lies inside at least one window.
C5_CoversSequence ==
    pc = "emit" => \A p \in 0..(seqlen - 1) : Covered(p)

\* C5 (amended): the windows planned for a surviving sequence with effective
\* read length L = min(length - 50, readlen) > 0 cover its first L residues:
\* every position 0..L-1 lies inside at least one window (positions from L on
\* need not).
C5_CoversPrefix ==
    LET L == Min(seqlen - 50, opts.readlen)
    IN  (pc = "emit" /\ L > 0) => \A p \in 0..(L - 1) : Covered(p)

\* C5 witness: a complete plan of several windows that covers the first L
\* residues and leaves a later residue outside every window.
C5_Witness ==
    /\ pc = "emit"
    /\ Min(seqlen - 50, opts.readlen) > 0
    /\ Len(ranges) >= 2
    /\ \E p \in 0..(seqlen - 1) : ~Covered(p)

\* C6: when the effective read length min(length - 50, readlen) of a sequence
\* that reaches the planner is zero or negative, the run fails fast: no
\* fragment record is written for a window with end <= begin or with a
\* negative end.
C6_FailFast ==
    [][(pc = "emit" /\ fw' # fw) =>
           /\ Min(seqlen - 50, opts.readlen) > 0
           /\ ranges[shredID + 1][1] < ranges[shredID + 1][2]
           /\ ranges[shredID + 1][2] >= 0]_vars

HeaderCount == Cardinality({k \in 1..Len(fw) : fw[k].blk = "LIB"})

\* C7: in structured mode the library header is written exactly once per
\* run, whatever the number of input or surviving sequences, and before the
\* first fragment record; in fasta mode no library header is written.
C7_HeaderOnce ==
    /\ opts.fasta => HeaderCount = 0
    /\ ~opts.fasta =>
           /\ HeaderCount <= 1
           /\ fw # <<>> => fw[1].blk = "LIB"
           /\ pc \in {"loop", "place", "emit", "done", "error"} =>
                  HeaderCount = 1

\* C7 witness: a structured run over two sequences has ended with the header
\* and fragment records written.
C7_Witness ==
    /\ pc = "done"
    /\ ~opts.fasta
    /\ Len(f) = 2
    /\ Len(fw) >= 3
    /\ HeaderCount = 1

\* C8: a sequence whose length is strictly less than minctglen is skipped
\* entirely (no window is planned, no fragment record is written for it, in
\* either mode), while a sequence of length exactly minctglen is not skipped.
C8_SkipShort ==
    /\ [](\A k \in Frags : f[IdFields(fw[k].acc).ctg + 1] >= opts.minctglen)
    /\ [](pc \in {"place", "emit"} => seqlen >= opts.minctglen)
    /\ [][(pc = "loop" /\ ctgID < Len(f)) =>
              IF seqlen < opts.minctglen
              THEN /\ pc' = "loop"
                   /\ ctgID' = ctgID + 1
                   /\ fw' = fw
                   /\ ranges' = ranges
              ELSE seqlen = opts.minctglen =>
                       /\ pc' \in {"place", "emit", "error"}
                       /\ ctgID' = ctgID]_vars

\* C8 witness: a run has ended that met a sequence shorter than minctglen and
\* a sequence of length exactly minctglen, and wrote fragment records.
C8_Witness ==
    /\ pc = "done"
    /\ \E c \in 1..Len(f) : f[c] < opts.minctglen
    /\ \E c \in 1..Len(f) : f[c] = opts.minctglen
    /\ Frags # {}

\* C9: every structured fragment record has the clear range clr:0,n with n
\* the number of residues of its seq: field and a qlt: string of exactly n
\* characters, all of them the default quality character; when the window
\* lies inside the sequence, n is end - begin of the window named in the
\* fragment identifier.
C9_ClearRange ==
    \A k \in 1..Len(fw) :
        fw[k].blk = "FRG" =>
            LET n == Len(fw[k].seq)
                id == IdFields(fw[k].acc)
            IN  /\ fw[k].clr = <<0, n>>
                /\ Len(fw[k].qlt) = n
                /\ \A p \in 1..n : fw[k].qlt[p] = "="
                /\ (0 <= id.begin /\ id.begin <= id.end
                    /\ id.end <= f[id.ctg + 1]) => n = id.end - id.begin

\* C9 witness: structured fragment records with residues have been written.
C9_Witness ==
    /\ pc = "done"
    /\ \E k \in 1..Len(fw) : fw[k].blk = "FRG" /\ Len(fw[k].seq) >= 2
    /\ Cardinality(Frags) >= 2

\* C10: within one run no two fragment records carry the same fragment
\* identifier: the pair (contig index, window index) encoded in the
\* identifier is distinct for every record.
C10_UniqueIds ==
    LET pairs == {LET id == IdFields(fw[k].acc) IN <<id.ctg, id.shred>> :
                     k \in Frags}
    IN  /\ Cardinality({fw[k].acc : k \in Frags}) = Cardinality(Frags)
        /\ Cardinality(pairs) = Cardinality(Frags)

\* C10 witness: a run over two sequences has ended with several fragment
\* records for each of them.
C10_Witness ==
    /\ pc = "done"
    /\ Len(f) = 2
    /\ \A c \in 0..1 :
           Cardinality({k \in Frags : IdFields(fw[k].acc).ctg = c}) >= 2

C12_RecordOrder ==
    \A k \in Frags :
        LET id == IdFields(fw[k].acc)
        IN  /\ id.ctg \in 0..(Len(f) - 1)
            /\ id.begin >= 0
            /\ \A p \in 1..Len(fw[k].seq) :
                   /\ id.begin + p <= f[id.ctg + 1]
                   /\ fw[k].seq[p] = Bases[((id.ctg + id.begin + p) % 4) + 1]
            /\ IF k - 1 \in Frags
               THEN LET pv == IdFields(fw[k - 1].acc)
                    IN  \/ id.ctg = pv.ctg /\ id.shred = pv.shred + 1
                        \/ id.ctg > pv.ctg /\ id.shred = 0
               ELSE id.shred = 0

\* C12 witness: a run has ended whose first sequence was skipped and whose
\* second sequence has several fragment records.
C12_Witness ==
    /\ pc = "done"
    /\ Len(f) = 2
    /\ f[1] < opts.minctglen
    /\ Cardinality({k \in Frags : IdFields(fw[k].acc).ctg = 1}) >= 2

\* C13: whenever the target read count N = max(floor(length * depth / L), 1)
\* is at least 2 (and L = min(length - 50, readlen) > 0), the first window of
\* the sequence is [0, L) and the last one is [length - L, length), so at
\* least two distinct windows are planned.
C13_FirstAndLastWindow ==
    LET L == Min(seqlen - 50, opts.readlen)
        N == Max((seqlen * opts.depth) \div L, 1)
    IN  (pc = "emit" /\ L > 0 /\ N >= 2) =>
            /\ Len(ranges) >= 2
            /\ ranges[1] = <<0, L>>
            /\ ranges[Len(ranges)] = <<seqlen - L, seqlen>>
====
